---- MODULE Spec2Model ----
(***************************************************************************)
(* questdb_connect: the DBAPI shim of src/questdb_connect/__init__.py.     *)
(*                                                                         *)
(*   SpecRewrite  Cursor.execute / remove_public_schema on bounded texts   *)
(*   Spec         connect, called sequentially                             *)
(*   SpecThreads  the population step of connect, run by several threads   *)
(*                                                                         *)
(* A text is a sequence of one-character strings.                          *)
(***************************************************************************)
EXTENDS Integers, Sequences, FiniteSets, TLC

VARIABLES
    query,        \* the statement handed to Cursor.execute
    sent,         \* the statements handed on to super().execute, in order
    func_names,   \* __func_names
    keywords,     \* __keywords
    kwargs,       \* the options of the latest connect call
    pg_call,      \* the keyword arguments psycopg2.connect got in that call
    served,       \* per list, what the server answered in the latest connect
    outcome,      \* per list, how its population step of the latest connect ended
    raised,       \* the exception the latest connect call let out ("none" if it returned)
    pc,           \* per thread, its position inside connect
    todo,         \* per thread, the fetched rows it has not appended yet
    calls,        \* per thread, the connect calls it has started
    passes        \* per list, the population passes that appended to it

rewriteVars == <<query, sent>>
connectVars == <<func_names, keywords, kwargs, pg_call, served, outcome, raised>>
threadVars  == <<pc, todo, calls, passes>>
vars == <<query, sent, func_names, keywords, kwargs, pg_call, served, outcome,
          raised, pc, todo, calls, passes>>

-----------------------------------------------------------------------------
(* Bounds *)

MaxTokens == 5
MaxExec == 2
MaxRows == 2
MaxOptions == 1
MaxCalls == 1

-----------------------------------------------------------------------------
(* Texts *)

PublicWord == <<"p", "u", "b", "l", "i", "c">>

\* re.IGNORECASE: the case folding of the letters the texts are built from
Fold(c) ==
    CASE c = "P" -> "p"
      [] c = "U" -> "u"
      [] c = "B" -> "b"
      [] c = "L" -> "l"
      [] c = "I" -> "i"
      [] c = "C" -> "c"
      [] OTHER -> c

FoldSeq(s) == [i \in 1..Len(s) |-> Fold(s[i])]

\* the fragments the statement texts are put together from
Tokens ==
    { PublicWord,
      <<"P", "U", "B", "L", "I", "C">>,
      <<"P", "u", "b", "l", "i", "c">>,
      <<"'">>,
      <<".">>,
      <<"p", "u", "b">>,
      <<"l", "i", "c">>,
      <<"r", "e">> }

RECURSIVE Flatten(_)
Flatten(ts) == IF ts = <<>> THEN <<>> ELSE Head(ts) \o Flatten(Tail(ts))

Texts == { Flatten(ts) : ts \in UNION { [1..n -> Tokens] : n \in 0..MaxTokens } }

\* a str argument, or an argument that is no str (a composed query object)
Str(s) == [isStr |-> TRUE, text |-> s]
NonStr == [isStr |-> FALSE, text |-> <<>>]

Queries == { Str(s) : s \in Texts } \cup {NonStr}

-----------------------------------------------------------------------------
(* public_schema_filter and remove_public_schema *)

\* `"public" in query`: a case-sensitive substring test
Contains(s, w) ==
    \E i \in 1..(Len(s) - Len(w) + 1) : SubSeq(s, i, i + Len(w) - 1) = w

\* the word `public`, under IGNORECASE, at positions i..i+5 of s
WordAt(s, i) ==
    /\ i >= 1
    /\ i + 5 <= Len(s)
    /\ FoldSeq(SubSeq(s, i, i + 5)) = PublicWord

\* (')?(public(?(1)\1|)\.) tried at position i: the length of the match, 0 if none.
\* Group 1 is tried first (greedy ?); when the rest fails with the quote taken, the
\* matcher backtracks to the empty alternative and the word must start at i itself.
MatchLen(s, i) ==
    IF /\ s[i] = "'"
       /\ WordAt(s, i + 1)
       /\ i + 8 <= Len(s)
       /\ s[i + 7] = "'"
       /\ s[i + 8] = "."
    THEN 9
    ELSE IF /\ WordAt(s, i)
            /\ i + 6 <= Len(s)
            /\ s[i + 6] = "."
         THEN 7
         ELSE 0

\* re.sub(public_schema_filter, "", s): one left-to-right pass over the
\* non-overlapping matches, from position i on
RECURSIVE SubFrom(_, _)
SubFrom(s, i) ==
    IF i > Len(s) THEN <<>>
    ELSE IF MatchLen(s, i) > 0
         THEN SubFrom(s, i + MatchLen(s, i))
         ELSE <<s[i]>> \o SubFrom(s, i + 1)

\* the guard of remove_public_schema
Rewritable(q) == q.isStr /\ q.text # <<>> /\ Contains(q.text, PublicWord)

remove_public_schema(q) ==
    IF Rewritable(q) THEN Str(SubFrom(q.text, 1)) ELSE q

-----------------------------------------------------------------------------
(* Cursor.execute *)

\* execute(query): the statement as the caller wrote it
Execute ==
    /\ sent = <<>>
    /\ sent' = <<remove_public_schema(query)>>
    /\ UNCHANGED <<query, connectVars, threadVars>>

\* execute(...) of a statement that already went through the rewrite
ExecuteRewritten ==
    /\ sent # <<>>
    /\ Len(sent) < MaxExec
    /\ sent' = Append(sent, remove_public_schema(sent[Len(sent)]))
    /\ UNCHANGED <<query, connectVars, threadVars>>

-----------------------------------------------------------------------------
(* The capability lists *)

\* __default_func_names
default_func_names ==
    <<
        "abs", "acos", "all_tables", "and", "asin", "atan", "atan2", "avg", "base64",
        "between", "build", "case", "cast", "ceil", "ceiling", "coalesce", "concat",
        "cos", "cot", "count", "count_distinct", "current_database", "current_schema",
        "current_schemas", "current_user", "date_trunc", "dateadd", "datediff", "day",
        "day_of_week", "day_of_week_sunday_first", "days_in_month", "degrees",
        "dump_memory_usage", "dump_thread_stacks", "extract", "first", "floor",
        "flush_query_cache", "format_type", "haversine_dist_deg", "hour", "ilike",
        "information_schema._pg_expandarray", "isOrdered", "is_leap_year", "ksum",
        "last", "left", "length", "like", "list", "log", "long_sequence", "lower",
        "lpad", "ltrim", "make_geohash", "max", "memory_metrics", "micros", "millis",
        "min", "minute", "month", "not", "now", "nsum", "nullif",
        "pg_advisory_unlock_all", "pg_attrdef", "pg_attribute", "pg_catalog.age",
        "pg_catalog.current_database", "pg_catalog.current_schema",
        "pg_catalog.current_schemas", "pg_catalog.pg_attrdef",
        "pg_catalog.pg_attribute", "pg_catalog.pg_class", "pg_catalog.pg_database",
        "pg_catalog.pg_description", "pg_catalog.pg_get_expr",
        "pg_catalog.pg_get_keywords", "pg_catalog.pg_get_partkeydef",
        "pg_catalog.pg_get_userbyid", "pg_catalog.pg_index", "pg_catalog.pg_inherits",
        "pg_catalog.pg_is_in_recovery", "pg_catalog.pg_locks",
        "pg_catalog.pg_namespace", "pg_catalog.pg_roles", "pg_catalog.pg_shdescription",
        "pg_catalog.pg_table_is_visible", "pg_catalog.pg_type",
        "pg_catalog.txid_current", "pg_catalog.version", "pg_class", "pg_database",
        "pg_description", "pg_get_expr", "pg_get_keywords", "pg_get_partkeydef",
        "pg_index", "pg_inherits", "pg_is_in_recovery", "pg_locks", "pg_namespace",
        "pg_postmaster_start_time", "pg_proc", "pg_range", "pg_roles", "pg_type",
        "position", "power", "radians", "reader_pool", "regexp_replace", "replace",
        "right", "rnd_bin", "rnd_boolean", "rnd_byte", "rnd_char", "rnd_date",
        "rnd_double", "rnd_float", "rnd_geohash", "rnd_int", "rnd_log", "rnd_long",
        "rnd_long256", "rnd_short", "rnd_str", "rnd_symbol", "rnd_timestamp",
        "rnd_uuid4", "round", "round_down", "round_half_even", "round_up", "row_number",
        "rpad", "rtrim", "second", "session_user", "simulate_crash", "sin",
        "size_pretty", "split_part", "sqrt", "starts_with", "stddev_samp", "string_agg",
        "strpos", "substring", "sum", "switch", "sysdate", "systimestamp",
        "table_columns", "table_partitions", "table_writer_metrics", "tables", "tan",
        "timestamp_ceil", "timestamp_floor", "timestamp_sequence", "timestamp_shuffle",
        "to_char", "to_date", "to_long128", "to_lowercase", "to_pg_date", "to_str",
        "to_timestamp", "to_timezone", "to_uppercase", "to_utc", "touch", "trim",
        "txid_current", "typeOf", "upper", "version", "wal_tables", "week_of_year",
        "year" >>

\* __default_keywords
default_keywords ==
    <<
        "add", "all", "alter", "and", "as", "asc", "asof", "backup", "between", "by",
        "cache", "capacity", "case", "cast", "column", "columns", "copy", "create",
        "cross", "database", "default", "delete", "desc", "distinct", "drop", "else",
        "end", "except", "exists", "fill", "foreign", "from", "grant", "group",
        "header", "if", "in", "index", "inner", "insert", "intersect", "into",
        "isolation", "join", "key", "latest", "limit", "lock", "lt", "nan", "natural",
        "nocache", "none", "not", "null", "on", "only", "or", "order", "outer", "over",
        "partition", "primary", "references", "rename", "repair", "right", "sample",
        "select", "show", "splice", "system", "table", "tables", "then", "to",
        "transaction", "truncate", "type", "union", "unlock", "update", "values",
        "when", "where", "with", "writer" >>

Lists == {"functions", "keywords"}

DefaultOf(l) == IF l = "functions" THEN default_func_names ELSE default_keywords

\* get_function_names() and get_keywords(): the list object itself
get_function_names == func_names
get_keywords == keywords

-----------------------------------------------------------------------------
(* The server's answer to one introspection query *)

Names == {"now", "sum"}

\* a result set: rows of one column
RowSeqs == UNION { [1..n -> { <<x>> : x \in Names }] : n \in 0..MaxRows }

Rows(rs) == [kind |-> "rows", at |-> "fetchall", rows |-> rs]
Failure(k, a) == [kind |-> k, at |-> a, rows |-> <<>>]
NoResponse == [kind |-> "none", at |-> "none", rows |-> <<>>]

\* psycopg2.DatabaseError and its subclasses are what line 106 catches;
\* psycopg2.InterfaceError derives from psycopg2.Error only
\* (cursor() on a connection that has gone away).  A failure comes out of
\* cursor(), execute() or fetchall(), each of which runs before the first append;
\* leaving the with block closes a client-side cursor, which sends nothing to
\* the server.
Responses ==
    { Rows(rs) : rs \in RowSeqs }
      \cup { Failure("DatabaseError", a) : a \in {"execute", "fetchall"} }
      \cup { Failure("InterfaceError", "cursor") }

\* a handler that catches nothing
CaughtNothing(kind) == FALSE

\* except psycopg2.DatabaseError
Caught(kind) == kind = "DatabaseError"

\* an append that skips the names the list already holds
RECURSIVE AppendRowsDistinct(_, _)
AppendRowsDistinct(target, rs) ==
    IF rs = <<>> THEN target
    ELSE AppendRowsDistinct(
             IF \E i \in 1..Len(target) : target[i] = Head(rs)[1]
             THEN target
             ELSE Append(target, Head(rs)[1]),
             Tail(rs))

\* for func_row in fetchall(): target_list.append(func_row[0])
RECURSIVE AppendRows(_, _)
AppendRows(target, rs) ==
    IF rs = <<>> THEN target
    ELSE AppendRows(Append(target, Head(rs)[1]), Tail(rs))

\* a handler that swallows the error and copies nothing
NoFallback(target, default) == target

\* target_list.extend(default_target_list)
ExtendDefault(target, default) == target \o default

\* a population step without the emptiness test
AlwaysPopulate(target) == TRUE

\* `if not target_list`
NeedsPopulation(target) == target = <<>>

\* __initialize_list(conn, sql_stmt, target_list, default_target_list), the server
\* answering sql_stmt with resp: the list afterwards, how the step ended, and the
\* exception it lets out
initialize_list(target, resp, default) ==
    IF ~NeedsPopulation(target)
    THEN [list |-> target, outcome |-> "skipped", exc |-> "none"]
    ELSE IF resp.kind = "rows"
    THEN [list |-> AppendRows(target, resp.rows), outcome |-> "rows", exc |-> "none"]
    ELSE IF Caught(resp.kind)
    THEN [list |-> ExtendDefault(target, default), outcome |-> "fallback",
          exc |-> "none"]
    ELSE [list |-> target, outcome |-> "raised", exc |-> resp.kind]

-----------------------------------------------------------------------------
(* The options of connect *)

TextVal(s) == [type |-> "str", s |-> s, n |-> 0]
IntVal(n) == [type |-> "int", s |-> "", n |-> n]
NoneVal == [type |-> "NoneType", s |-> "", n |-> 0]
FunctionVal(f) == [type |-> "function", s |-> f, n |-> 0]

\* Python truth value, as `or` tests it
Truthy(v) ==
    CASE v.type = "str" -> v.s # ""
      [] v.type = "int" -> v.n # 0
      [] v.type = "NoneType" -> FALSE
      [] OTHER -> TRUE

DefaultPort == 8812

Recognized == {"host", "port", "username", "password", "database"}
OptionNames == Recognized \cup {"sslmode"}

\* the values a caller passes for an option: a set one and, for three of them,
\* an empty one ("", 0, None)
ValuesOf(k) ==
    CASE k = "host" -> {TextVal("db.local"), TextVal("")}
      [] k = "port" -> {IntVal(9000), IntVal(0)}
      [] k = "username" -> {TextVal("bob"), NoneVal}
      [] k = "password" -> {TextVal("secret")}
      [] k = "database" -> {TextVal("qdb")}
      [] OTHER -> {TextVal("require")}

KwargsSet ==
    UNION { { f \in [S -> UNION { ValuesOf(k) : k \in S }] :
                \A k \in S : f[k] \in ValuesOf(k) } :
            S \in { T \in SUBSET OptionNames : Cardinality(T) <= MaxOptions } }

NoArgs == [k \in {} |-> NoneVal]

\* kwargs.get(k, d): the default only for a missing option
GetWithDefault(kw, k, d) == IF k \in DOMAIN kw THEN kw[k] ELSE d

\* kwargs.get(k) or d
GetOr(kw, k, d) == IF k \in DOMAIN kw /\ Truthy(kw[k]) THEN kw[k] ELSE d

\* the keyword arguments of the psycopg2.connect call
ConnectArgs(kw) ==
    [a \in {"cursor_factory", "host", "port", "user", "password", "database"} |->
        CASE a = "cursor_factory" -> FunctionVal("cursor_factory")
          [] a = "host" -> GetOr(kw, "host", TextVal("127.0.0.1"))
          [] a = "port" -> GetOr(kw, "port", IntVal(DefaultPort))
          [] a = "user" -> GetOr(kw, "username", TextVal("admin"))
          [] a = "password" -> GetOr(kw, "password", TextVal("quest"))
          [] a = "database" -> GetOr(kw, "database", TextVal("main"))]

-----------------------------------------------------------------------------
(* connect, one call at a time *)

ResponsesFor(target) == IF NeedsPopulation(target) THEN Responses ELSE {NoResponse}

\* psycopg2.connect raises: nothing of lines 90-96 runs
ConnectFails ==
    \E kw \in KwargsSet :
        /\ kwargs' = kw
        /\ pg_call' = ConnectArgs(kw)
        /\ raised' = "OperationalError"
        /\ served' = [l \in Lists |-> NoResponse]
        /\ outcome' = [l \in Lists |-> "notreached"]
        /\ UNCHANGED <<func_names, keywords, rewriteVars, threadVars>>

\* connect with the options kw, on a server that answers the functions query with rf and the
\* keywords query with rk (when they are issued)
Connect ==
    \E kw \in KwargsSet, rf \in ResponsesFor(func_names) :
        LET f == initialize_list(func_names, rf, default_func_names) IN
        \E rk \in IF f.exc = "none" THEN ResponsesFor(keywords) ELSE {NoResponse} :
            LET k == IF f.exc = "none"
                     THEN initialize_list(keywords, rk, default_keywords)
                     ELSE [list |-> keywords, outcome |-> "notreached",
                           exc |-> f.exc]
            IN  /\ kwargs' = kw
                /\ pg_call' = ConnectArgs(kw)
                /\ func_names' = f.list
                /\ keywords' = k.list
                /\ served' = [l \in Lists |-> IF l = "functions" THEN rf ELSE rk]
                /\ outcome' = [l \in Lists |->
                                  IF l = "functions" THEN f.outcome ELSE k.outcome]
                /\ raised' = k.exc
                /\ UNCHANGED <<rewriteVars, threadVars>>

-----------------------------------------------------------------------------
(* connect on several threads: the population steps interleave.  The module *)
(* declares threadsafety = 2 and takes no lock around the two lists; every  *)
(* step below is one the interpreter runs without switching threads.        *)

Threads == {"t1", "t2"}

At(step, l) == [step |-> step, list |-> l]
Idle == At("idle", "none")

ListOf(l) == IF l = "functions" THEN func_names ELSE keywords

SetList(l, v) ==
    IF l = "functions"
    THEN func_names' = v /\ UNCHANGED keywords
    ELSE keywords' = v /\ UNCHANGED func_names

\* lines 90-96: the functions list, then the keywords list, then return
After(l) == IF l = "functions" THEN At("check", "keywords") ELSE At("return", "none")

\* connect is called and psycopg2.connect returns a connection
T_Connect(t) ==
    /\ pc[t] = Idle
    /\ calls[t] < MaxCalls
    /\ calls' = [calls EXCEPT ![t] = @ + 1]
    /\ pc' = [pc EXCEPT ![t] = At("check", "functions")]
    /\ UNCHANGED <<todo, passes, rewriteVars, connectVars>>

\* line 100: if not target_list
T_Check(t) ==
    /\ pc[t].step = "check"
    /\ pc' = [pc EXCEPT ![t] =
                 IF NeedsPopulation(ListOf(pc[t].list))
                 THEN At("query", pc[t].list)
                 ELSE After(pc[t].list)]
    /\ UNCHANGED <<todo, calls, passes, rewriteVars, connectVars>>

\* lines 102-104: cursor(), execute(sql_stmt), fetchall()
T_Query(t) ==
    /\ pc[t].step = "query"
    /\ \E resp \in Responses :
          IF resp.kind = "rows"
          THEN /\ todo' = [todo EXCEPT ![t] = resp.rows]
               /\ pc' = [pc EXCEPT ![t] =
                            IF resp.rows = <<>> THEN After(pc[t].list)
                            ELSE At("append", pc[t].list)]
          ELSE /\ todo' = todo
               /\ pc' = [pc EXCEPT ![t] =
                            IF Caught(resp.kind) THEN At("except", pc[t].list)
                            ELSE At("return", "none")]
    /\ UNCHANGED <<calls, passes, rewriteVars, connectVars>>

\* line 105: one target_list.append(func_row[0])
T_Append(t) ==
    /\ pc[t].step = "append"
    /\ SetList(pc[t].list, AppendRows(ListOf(pc[t].list), <<Head(todo[t])>>))
    /\ todo' = [todo EXCEPT ![t] = Tail(@)]
    /\ passes' = [passes EXCEPT ![pc[t].list] = @ \cup {<<t, calls[t]>>}]
    /\ pc' = [pc EXCEPT ![t] =
                 IF Tail(todo[t]) = <<>> THEN After(pc[t].list) ELSE pc[t]]
    /\ UNCHANGED <<calls, kwargs, pg_call, served, outcome, raised, rewriteVars>>

\* line 107: target_list.extend(default_target_list)
T_Except(t) ==
    /\ pc[t].step = "except"
    /\ SetList(pc[t].list, ExtendDefault(ListOf(pc[t].list), DefaultOf(pc[t].list)))
    /\ passes' = [passes EXCEPT ![pc[t].list] = @ \cup {<<t, calls[t]>>}]
    /\ pc' = [pc EXCEPT ![t] = After(pc[t].list)]
    /\ UNCHANGED <<todo, calls, kwargs, pg_call, served, outcome, raised, rewriteVars>>

\* line 96, or an exception leaving connect
T_Return(t) ==
    /\ pc[t].step = "return"
    /\ pc' = [pc EXCEPT ![t] = Idle]
    /\ UNCHANGED <<todo, calls, passes, rewriteVars, connectVars>>

-----------------------------------------------------------------------------
(* Specifications *)

\* lines 110 and 300: both lists start empty; no connect call has been made
InitConnect ==
    /\ func_names = <<>>
    /\ keywords = <<>>
    /\ kwargs = NoArgs
    /\ pg_call = NoArgs
    /\ served = [l \in Lists |-> NoResponse]
    /\ outcome = [l \in Lists |-> "notreached"]
    /\ raised = "none"

InitThreadVars ==
    /\ pc = [t \in Threads |-> Idle]
    /\ todo = [t \in Threads |-> <<>>]
    /\ calls = [t \in Threads |-> 0]
    /\ passes = [l \in Lists |-> {}]

Init ==
    /\ query = Str(<<>>)
    /\ sent = <<>>
    /\ InitConnect
    /\ InitThreadVars

Next == Connect \/ ConnectFails

Spec == Init /\ [][Next]_vars

InitRewrite ==
    /\ query \in Queries
    /\ sent = <<>>
    /\ InitConnect
    /\ InitThreadVars

NextRewrite == Execute \/ ExecuteRewritten

SpecRewrite == InitRewrite /\ [][NextRewrite]_vars

NextThreads ==
    \E t \in Threads :
        \/ T_Connect(t)
        \/ T_Check(t)
        \/ T_Query(t)
        \/ T_Append(t)
        \/ T_Except(t)
        \/ T_Return(t)

SpecThreads == Init /\ [][NextThreads]_vars

-----------------------------------------------------------------------------
(* Properties of the rewrite, checked under SpecRewrite *)

\* the statement was a str and Cursor.execute has handed it on
Rewritten == query.isStr /\ sent # <<>>

\* an occurrence of `public.` (n = 7) or of `'public'.` (n = 9) at position i of s,
\* in any letter case
QualifierAt(s, i, n) ==
    \/ n = 7 /\ WordAt(s, i) /\ i + 6 <= Len(s) /\ s[i + 6] = "."
    \/ /\ n = 9
       /\ s[i] = "'"
       /\ WordAt(s, i + 1)
       /\ i + 8 <= Len(s)
       /\ s[i + 7] = "'"
       /\ s[i + 8] = "."

InQualifier(s, j) ==
    \E i \in 1..j, n \in {7, 9} : QualifierAt(s, i, n) /\ j < i + n

\* s without the characters of its qualifiers, the others in order
RECURSIVE OutsideQualifiers(_, _)
OutsideQualifiers(s, j) ==
    IF j > Len(s) THEN <<>>
    ELSE IF InQualifier(s, j) THEN OutsideQualifiers(s, j + 1)
    ELSE <<s[j]>> \o OutsideQualifiers(s, j + 1)

LowerCase(s) == FoldSeq(s) = s

\* C1: for every str statement, the statement handed on is the statement with
\* every occurrence of `public.` and of `'public'.` removed and every other
\* character left unchanged and in order.
C1_EveryQualifierRemoved ==
    Rewritten => sent[1] = Str(OutsideQualifiers(query.text, 1))

\* What does hold of C1: on statements written in lower case the single pass
\* removes exactly the qualifiers.
LowerCaseQualifiersRemoved ==
    Rewritten /\ LowerCase(query.text)
        => sent[1] = Str(OutsideQualifiers(query.text, 1))

\* C2: a statement whose only occurrence of the word public, in whatever letter
\* case, is an unquoted qualifier `public.` is handed on without that qualifier,
\* the text before and after it as it was.
C2_AnyCaseQualifierRemoved ==
    Rewritten =>
        \A i \in 1..Len(query.text) :
            /\ QualifierAt(query.text, i, 7)
            /\ \A j \in 1..Len(query.text) : WordAt(query.text, j) => j = i
            => sent[1] = Str(SubSeq(query.text, 1, i - 1)
                               \o SubSeq(query.text, i + 7, Len(query.text)))

\* the letters the texts are built from
Letters == {"p", "u", "b", "l", "i", "c", "P", "U", "B", "L", "I", "C", "r", "e"}

\* the word at i..i+5 has a letter right before or right after it
InLongerIdentifier(s, i) ==
    \/ i > 1 /\ s[i - 1] \in Letters
    \/ i + 6 <= Len(s) /\ s[i + 6] \in Letters

\* the word at i..i+5 is not followed by `.`, nor enclosed in quotes and then
\* followed by `.`
NonSchemaToken(s, i) ==
    /\ ~(i + 6 <= Len(s) /\ s[i + 6] = ".")
    /\ ~(i > 1 /\ QualifierAt(s, i - 1, 9))

\* C3: a statement in which the word public occurs only inside longer
\* identifiers or as a non-schema token is handed on unchanged.
C3_NoPartialTokenRewrite ==
    Rewritten
      /\ (\A i \in 1..Len(query.text) :
            WordAt(query.text, i) =>
                InLongerIdentifier(query.text, i) \/ NonSchemaToken(query.text, i))
      => sent[1] = query

\* C4: rewriting an already rewritten statement changes nothing.
C4_Idempotent ==
    Rewritten /\ Len(sent) >= 2 => sent[2] = sent[1]

-----------------------------------------------------------------------------
(* Properties of connect, checked under Spec *)

Getter(l) == IF l = "functions" THEN get_function_names ELSE get_keywords

Other(l) == IF l = "functions" THEN "keywords" ELSE "functions"

\* the single value of every row, in the order of the rows
ColumnOf(rs) == [i \in 1..Len(rs) |-> rs[i][1]]

\* C5: a list that was empty at connect and whose query succeeded holds, after the
\* connect, the single value of every row the server returned, in the server's
\* order, duplicates included; the accessor returns exactly that.
C5_ServerRowsInOrder ==
    \A l \in Lists :
        served[l].kind = "rows" => Getter(l) = ColumnOf(served[l].rows)

C5_Witness ==
    /\ served["functions"] = Rows(<<<<"sum">>, <<"now">>>>)
    /\ get_function_names = <<"sum", "now">>
    /\ raised = "none"

\* C6: when the query for an empty list fails with a database error, wherever in
\* the step, that error does not leave connect, and the list afterwards is exactly
\* the default list.
C6_FallbackToDefaults ==
    \A l \in Lists :
        served[l].kind = "DatabaseError" =>
            /\ Getter(l) = DefaultOf(l)
            /\ raised # "DatabaseError"
            /\ served[Other(l)].kind # "InterfaceError" => raised = "none"

C6_Witness ==
    /\ served["functions"] = Failure("DatabaseError", "fetchall")
    /\ get_function_names = default_func_names
    /\ raised = "none"

\* C7: a connect call issues no query for a list that is not empty and leaves
\* that list as it is; a list is queried only if it is empty at that connect.
C7_PopulatedOnce ==
    [][ /\ func_names # <<>> =>
            func_names' = func_names /\ served'["functions"] = NoResponse
        /\ keywords # <<>> =>
            keywords' = keywords /\ served'["keywords"] = NoResponse
      ]_vars

C7_Witness ==
    /\ outcome["functions"] = "skipped"
    /\ outcome["keywords"] = "skipped"
    /\ func_names = <<"now", "now">>
    /\ keywords = default_keywords

\* what a population step makes of a list, given only that list and the answer
\* to its own query
Alone(before, resp, default) ==
    IF before # <<>> THEN before
    ELSE IF resp.kind = "rows" THEN ColumnOf(resp.rows)
    ELSE IF resp.kind = "DatabaseError" THEN default
    ELSE before

IndependentOn(kinds) ==
    /\ served'["functions"].kind \in kinds =>
          /\ outcome'["keywords"] # "notreached"
          /\ keywords' = Alone(keywords, served'["keywords"], default_keywords)
    /\ served'["keywords"].kind \in {"DatabaseError", "InterfaceError"} =>
          func_names' = Alone(func_names, served'["functions"], default_func_names)

\* C8, as claimed: after any failure of the functions query the keywords step is
\* still run and leaves the keywords list as it would have been; a failure of
\* the keywords query leaves the function names as populated.
C8_AnyFailure == [][IndependentOn({"DatabaseError", "InterfaceError"})]_vars

\* C8, amended: the same for a failure of the functions query that is a database
\* error; a failure of the keywords query, of either kind, leaves the function
\* names as populated.
C8_DatabaseFailure == [][IndependentOn({"DatabaseError"})]_vars

C8_Witness ==
    /\ served["functions"] = Failure("DatabaseError", "execute")
    /\ served["keywords"] = Rows(<<<<"sum">>, <<"sum">>>>)
    /\ keywords = <<"sum", "sum">>
    /\ func_names = default_func_names

Called == pg_call # NoArgs

ArgumentOf(k) == IF k = "username" THEN "user" ELSE k

DefaultOption(k) ==
    CASE k = "host" -> TextVal("127.0.0.1")
      [] k = "port" -> IntVal(8812)
      [] k = "username" -> TextVal("admin")
      [] k = "password" -> TextVal("quest")
      [] k = "database" -> TextVal("main")

\* C9, as claimed: each of host, port, username, password and database reaches
\* the underlying connect call with its given value, or its default when unset;
\* every other option given reaches it unmodified.
C9_OptionsForwarded ==
    Called =>
        /\ \A k \in Recognized :
              pg_call[ArgumentOf(k)] =
                  IF k \in DOMAIN kwargs /\ kwargs[k] # NoneVal
                  THEN kwargs[k] ELSE DefaultOption(k)
        /\ \A k \in DOMAIN kwargs \ Recognized :
              k \in DOMAIN pg_call /\ pg_call[k] = kwargs[k]

Empty(v) == v \in {NoneVal, TextVal(""), IntVal(0)}

\* C9, amended: each of the five options reaches the underlying connect call
\* with its given value, or its default when it is unset or empty (None, "", 0),
\* username under the name user; the call gets these five and cursor_factory and
\* nothing else: every other option given is dropped.
C9_ConnectArguments ==
    Called =>
        /\ \A k \in Recognized :
              pg_call[ArgumentOf(k)] =
                  IF k \in DOMAIN kwargs /\ ~Empty(kwargs[k])
                  THEN kwargs[k] ELSE DefaultOption(k)
        /\ pg_call["cursor_factory"] = FunctionVal("cursor_factory")
        /\ DOMAIN pg_call = { ArgumentOf(k) : k \in Recognized } \cup {"cursor_factory"}

C9_Witness ==
    /\ Called
    /\ "sslmode" \in DOMAIN kwargs
    /\ "sslmode" \notin DOMAIN pg_call
    /\ raised = "none"

-----------------------------------------------------------------------------
(* Properties of concurrent connect calls, checked under SpecThreads *)

IsPrefix(a, b) == Len(a) <= Len(b) /\ SubSeq(b, 1, Len(a)) = a

\* C10: whatever the interleaving, at most one population pass ever appends to
\* a list, and no element of a list is removed or moved.
C10_AtMostOnePopulation ==
    [][ \A l \in Lists : Cardinality(passes'[l]) <= 1 ]_vars
      /\ [][ IsPrefix(func_names, func_names') /\ IsPrefix(keywords, keywords') ]_vars

\* What does hold of C10: the lists only grow at their end.
AppendOnly ==
    [][ IsPrefix(func_names, func_names') /\ IsPrefix(keywords, keywords') ]_vars

====
